---- MODULE Spec2Model ----
(***************************************************************************)
(* A model of email_analyzer.py: the unread fetcher                        *)
(* (get_unread_email_count, get_all_unread_emails), the categorizer        *)
(* (suggest_categories), the exporter (save_categories_to_file) and main.  *)
(*                                                                         *)
(* The mail provider, the vectorizer/clustering library and the file       *)
(* system are the environment: their answers are inputs drawn from small   *)
(* sets, and any of their calls may raise.                                 *)
(***************************************************************************)
EXTENDS Integers, Sequences, FiniteSets, TLC

VARIABLES
    pc,               \* position of the running function
    caller,           \* "main" when the functions run under main(), else "none"
    status,           \* per function: "idle", "running", "returned", "raised"
    service,          \* the mocked provider: [pages, cyclic, estimate]
    batch_size,       \* parameter of get_all_unread_emails
    total_count,      \* local of get_all_unread_emails (line 71)
    all_messages,     \* local (line 75): the accumulated identifiers
    next_page_token,  \* local (line 76)
    page_count,       \* local (line 79)
    response,         \* local (line 83): the last listing response
    requests,         \* log: the pageToken of every listing call made
    emails,           \* local (line 113) / the records handed on by main
    pauses,           \* log: the hydration count at every time.sleep(1)
    fetch_ret,        \* return value of get_all_unread_emails
    num_clusters,     \* parameter of suggest_categories
    cat_ret,          \* return value of suggest_categories
    categories,       \* the grouping: sequence of <<label, records>>
    console,          \* the grouped summary main printed
    file,             \* rows the destination file holds
    buffer,           \* rows written to the open file and not yet flushed to it
    torn,             \* the destination ends with a fragment of a row
    row_at,           \* <<group index, record index>> of the next row to write
    save_ret,         \* return value of save_categories_to_file
    caught            \* the functions whose except clause ran (each logs the error)

vars == <<pc, caller, status, service, batch_size, total_count, all_messages,
          next_page_token, page_count, response, requests, emails, pauses,
          fetch_ret, num_clusters, cat_ret, categories, console, file, buffer,
          torn, row_at, save_ret, caught>>

fetchVars == <<service, batch_size, total_count, all_messages, next_page_token,
               page_count, response, requests, pauses, fetch_ret>>
catVars == <<num_clusters, cat_ret>>
saveVars == <<file, buffer, torn, row_at, save_ret>>

(***************************************************************************)
(* Bounds of the model.                                                    *)
(***************************************************************************)
MaxPages == 3        \* pages a mocked provider holds
MaxRecords == 3      \* records handed to suggest_categories directly
MaxClusters == 4     \* largest requested cluster count
MaxGroups == 2       \* categories of a grouping handed to the exporter directly

\* No continuation token (Python None).
NoToken == 0

\* ---------------------------------------------------------------- helpers

Last(s) == s[Len(s)]

RECURSIVE SumSeq(_)
SumSeq(s) == IF s = <<>> THEN 0 ELSE s[1] + SumSeq(Tail(s))

RECURSIVE SeqsUpTo(_, _)
\* All sequences over S of length 0..n.
SeqsUpTo(S, n) ==
    IF n = 0 THEN {<<>>}
    ELSE LET shorter == SeqsUpTo(S, n - 1)
         IN  shorter \cup {Append(s, x) : s \in {t \in shorter : Len(t) = n - 1}, x \in S}

\* dict[k] = v
Put(d, k, v) == [x \in DOMAIN d \cup {k} |-> IF x = k THEN v ELSE d[x]]

\* dict.get(k, default)
Get(d, k, default) == IF k \in DOMAIN d THEN d[k] ELSE default

\* ------------------------------------------------------ the mocked provider

\* Identifiers are numbered in the order the provider lists them: page j holds
\* the identifiers Offset(j)+1 .. Offset(j)+pages[j].
Offset(pages, j) == SumSeq(SubSeq(pages, 1, j - 1))

PageIds(pages, j) == [x \in 1..pages[j] |-> Offset(pages, j) + x]

\* messages().list(pageToken=token).execute(): token None asks for the first
\* page; every page but the last carries the token of the next one, and a
\* cyclic provider carries a token on its last page too.
ListMessages(svc, token) ==
    LET j == IF token = NoToken THEN 1 ELSE token
    IN  [messages |-> PageIds(svc.pages, j),
         nextPageToken |-> IF j < Len(svc.pages) THEN j + 1
                           ELSE IF svc.cyclic THEN 1 ELSE NoToken]

\* messages().get(id=..., format='metadata').execute(): the message of an
\* identifier. Which headers and snippet a message has depends on the
\* identifier, so that every shape of message occurs.
GetMessage(id) ==
    LET base == [id |-> id, threadId |-> id + 1000]
        shape == id % 4
    IN  IF shape = 1 THEN
            base @@ [headers |-> << [name |-> "From", value |-> "ann@example.com"],
                                   [name |-> "Subject", value |-> "Invoice reminder"],
                                   [name |-> "Date", value |-> "Mon" ] >>,
                     snippet |-> "Please pay"]
        ELSE IF shape = 2 THEN
            base @@ [headers |-> << [name |-> "Subject", value |-> "Team meeting"],
                                   [name |-> "To", value |-> "me@example.com"] >>,
                     snippet |-> "  "]
        ELSE IF shape = 3 THEN
            base @@ [headers |-> << [name |-> "From", value |-> "bob@example.com"],
                                   [name |-> "Subject", value |-> "Invoice payment"],
                                   [name |-> "From", value |-> "carol@example.com"] >>]
        ELSE
            base @@ [headers |-> << [name |-> "Date", value |-> "Tue"] >>,
                     snippet |-> ""]

\* ------------------------------------------------ get_all_unread_emails

\* get_unread_email_count: response.get('resultSizeEstimate', 0)
get_unread_email_count(svc) == svc.estimate

\* len(all_messages) >= total_count * 1.1, as Python evaluates it: the product
\* is the IEEE double nearest to t * 1.1d, where 1.1d = (11 * 2^52 + 4) / (10 * 2^52),
\* and the integer n is compared with it exactly. The product differs from
\* 11t/10 by t * 0.4 * 2^-52, which rounding removes only when 11t/10 is an
\* integer q and that excess is at most half an ulp of q (a tie rounds to the
\* even mantissa, q).
RECURSIVE Pow2Floor(_)
\* The largest power of two that is <= q, for q >= 1.
Pow2Floor(q) == IF q < 2 THEN 1 ELSE 2 * Pow2Floor(q \div 2)

ProductIsExact(t) ==
    /\ t % 10 = 0
    /\ (t = 0 \/ 8 * (t \div 10) <= Pow2Floor(11 * (t \div 10)))

SafetyStopNever(n, t) == FALSE

SafetyStopNoMargin(n, t) == n >= t

SafetyStop(n, t) ==
    \/ 10 * n > 11 * t
    \/ 10 * n = 11 * t /\ ProductIsExact(t)

\* strip() of the snippets the provider returns: only blanks are removed.
Strip(snippet) == IF snippet \in {"", " ", "  "} THEN "" ELSE snippet

RECURSIVE ApplyHeaders(_, _)
\* Lines 134-140: a later header of the same name overrides an earlier one.
ApplyHeaders(email_data, headers) ==
    IF headers = <<>> THEN email_data
    ELSE LET h == Head(headers)
             d == IF h.name = "From" THEN Put(email_data, "from", h.value)
                  ELSE IF h.name = "Subject" THEN Put(email_data, "subject", h.value)
                  ELSE IF h.name = "Date" THEN Put(email_data, "date", h.value)
                  ELSE email_data
         IN  ApplyHeaders(d, Tail(headers))

\* Lines 128-148: the record built from a hydrated message.
BuildRecord(msg) ==
    LET withHeaders == ApplyHeaders([id |-> msg.id, threadId |-> msg.threadId],
                                    msg.headers)
        has_body == Strip(Get(msg, "snippet", "")) # ""
    IN  Put(Put(withHeaders, "has_body", has_body), "body", "")

\* Where a function goes when it returns.
ReturnTo(fn) ==
    IF caller = "main"
    THEN (CASE fn = "fetch" -> "m_check"
            [] fn = "categorize" -> "m_group"
            [] fn = "save" -> "m_final")
    ELSE "done"

\* Lines 159-161: what the except clause returns.
OnFetchErrorPartial(partial) == partial

OnFetchError(partial) == << >>

FetchReturn(value) ==
    /\ fetch_ret' = value
    /\ status' = [status EXCEPT !["fetch"] = "returned"]
    /\ pc' = ReturnTo("fetch")

\* Lines 159-161: the except clause.
FetchExcept(partial) ==
    /\ FetchReturn(OnFetchError(partial))
    /\ caught' = caught \cup {"fetch"}

\* Line 71, and its failure (lines 159-161).
FetchCount ==
    /\ pc = "count"
    /\ \E fails \in BOOLEAN :
         IF fails
         THEN /\ FetchExcept(<< >>)
              /\ UNCHANGED total_count
         ELSE /\ total_count' = get_unread_email_count(service)
              /\ pc' = "list"
              /\ UNCHANGED <<status, fetch_ret, caught>>
    /\ UNCHANGED <<caller, service, batch_size, all_messages, next_page_token,
                   page_count, response, requests, emails, pauses, catVars,
                   categories, console, saveVars>>

\* Line 153: a pause follows this hydration.
PauseAfterEvery(i, total_messages, b) == (i + 1) % b = 0

PauseAfter(i, total_messages, b) == (i + 1) % b = 0 /\ i < total_messages - 1

\* Line 94: all_messages.extend(messages)
ExtendReplacing(all, messages) == messages

Extend(all, messages) == all \o messages

\* One iteration of the paging loop (lines 81-106), with the exit of the loop
\* (lines 108-116) when the iteration breaks.
FetchList ==
    /\ pc = "list"
    /\ page_count' = page_count + 1
    /\ requests' = Append(requests, next_page_token)
    /\ \E fails \in BOOLEAN :
         IF fails
         THEN /\ FetchExcept(<< >>)
              /\ UNCHANGED <<response, all_messages, next_page_token, emails>>
         ELSE LET resp == ListMessages(service, next_page_token)
                  messages == resp.messages
                  acc == Extend(all_messages, messages)
                  token == resp.nextPageToken
                  goOn == /\ messages # << >>
                          /\ token # NoToken
                          /\ ~SafetyStop(Len(acc), total_count)
              IN  /\ response' = resp
                  /\ all_messages' = acc
                  /\ next_page_token' = IF messages = << >> THEN next_page_token ELSE token
                  /\ emails' = << >>
                  /\ IF goOn
                     THEN /\ pc' = "list"
                          /\ UNCHANGED <<status, fetch_ret, caught>>
                     ELSE IF acc = << >>
                     THEN FetchReturn(<< >>) /\ UNCHANGED caught
                     ELSE /\ pc' = "hydrate"
                          /\ UNCHANGED <<status, fetch_ret, caught>>
    /\ UNCHANGED <<caller, service, batch_size, total_count, pauses, catVars,
                   categories, console, saveVars>>

\* One iteration of the hydration loop (lines 118-155), with the return of
\* line 157 after the last one. A batch size of 0 raises ZeroDivisionError at
\* line 153, which the except clause catches like any other error.
FetchHydrate ==
    /\ pc = "hydrate"
    /\ Len(emails) < Len(all_messages)
    /\ \E fails \in BOOLEAN :
         LET i == Len(emails)
             total_messages == Len(all_messages)
             msg == GetMessage(all_messages[i + 1])
             hydrated == Append(emails, BuildRecord(msg))
         IN  IF fails
             THEN /\ FetchExcept(emails)
                  /\ UNCHANGED <<emails, pauses>>
             ELSE /\ emails' = hydrated
                  /\ IF batch_size = 0
                     THEN /\ FetchExcept(hydrated)
                          /\ UNCHANGED pauses
                     ELSE /\ pauses' = IF PauseAfter(i, total_messages, batch_size)
                                       THEN Append(pauses, i + 1) ELSE pauses
                          /\ IF i + 1 = total_messages
                             THEN FetchReturn(hydrated) /\ UNCHANGED caught
                             ELSE /\ pc' = "hydrate"
                                  /\ UNCHANGED <<status, fetch_ret, caught>>
    /\ UNCHANGED <<caller, service, batch_size, total_count, all_messages,
                   next_page_token, page_count, response, requests, catVars,
                   categories, console, saveVars>>

\* Lines 75-79: the locals of get_all_unread_emails before its first call.
FetchLocals ==
    /\ total_count = 0
    /\ all_messages = << >>
    /\ next_page_token = NoToken
    /\ page_count = 0
    /\ response = [messages |-> << >>, nextPageToken |-> NoToken]
    /\ requests = << >>
    /\ pauses = << >>
    /\ fetch_ret = << >>

\* No provider: the function under study is called without one.
NoService == [pages |-> <<0>>, cyclic |-> FALSE, estimate |-> 0]

FetchIdle == service = NoService /\ batch_size = 0 /\ FetchLocals

\* The values the variables of the functions not yet called hold.
CatIdle == num_clusters = 0 /\ cat_ret = << >>
SaveIdle ==
    file = << >> /\ buffer = << >> /\ torn = FALSE /\ row_at = <<1, 1>> /\ save_ret = FALSE
MainIdle == categories = << >> /\ console = << >> /\ caught = {}

\* The mocked providers and the batch sizes of the direct calls.
PageSizes == {0, 1, 11, 55}
Estimates == {0, 1, 10, 50}
BatchSizes == {0, 1, 2, 25}

Services ==
    [pages : SeqsUpTo(PageSizes, MaxPages) \ {<< >>},
     cyclic : BOOLEAN,
     estimate : Estimates]

InitFetch ==
    /\ caller = "none"
    /\ status = [fn \in {"fetch", "categorize", "save", "main"} |->
                   IF fn = "fetch" THEN "running" ELSE "idle"]
    /\ pc = "count"
    /\ service \in Services
    /\ batch_size \in BatchSizes
    /\ FetchLocals
    /\ emails = << >>
    /\ CatIdle /\ SaveIdle /\ MainIdle

NextFetch == FetchCount \/ FetchList \/ FetchHydrate

SpecFetch == InitFetch /\ [][NextFetch]_vars

\* --------------------------------------------------- suggest_categories

\* Lines 183-184: the cluster count the clustering runs with.
EffectiveClustersNoHalving(n, k) == IF n < k THEN (IF n > 2 THEN n ELSE 2) ELSE k

EffectiveClusters(n, k) ==
    IF n < k
    THEN (IF n \div 2 > 2 THEN n \div 2 ELSE 2)
    ELSE k

\* The vocabulary of the subjects the model uses, in the alphabetical order
\* get_feature_names_out() lists it in.
AllTerms == <<"invoice", "meeting", "payment", "reminder", "team">>

\* The vectorizer's analyzer: lower-cased words of two or more characters that
\* are no English stop word.
Terms(document) ==
    CASE document = "Invoice reminder" -> {"invoice", "reminder"}
      [] document = "Invoice payment" -> {"invoice", "payment"}
      [] document = "Team meeting" -> {"team", "meeting"}
      [] document = "It is the" -> {}
      [] OTHER -> {}

\* Lines 169-172: one document per record, its subject or ''.
Documents(records) == [i \in 1..Len(records) |-> Get(records[i], "subject", "")]

DocumentFrequency(documents, term) ==
    Cardinality({i \in 1..Len(documents) : term \in Terms(documents[i])})

\* Lines 175-180, 187 and 197: the features fit_transform keeps are the terms
\* found in at least min_df = 1 document and in at most max_df = 0.9 of them
\* (0.9 * n is compared as a real number: below ten documents no multiple of
\* 0.9 is within rounding distance of an integer).
FeatureNames(documents) ==
    SelectSeq(AllTerms,
              LAMBDA term : /\ DocumentFrequency(documents, term) >= 1
                            /\ 10 * DocumentFrequency(documents, term)
                                 <= 9 * Len(documents))

\* Line 187: fit_transform raises ValueError on an empty vocabulary, when
\* max_df * n < min_df, and when no term is left after pruning.
VectorizerRaises(documents) ==
    \/ \A i \in 1..Len(documents) : Terms(documents[i]) = {}
    \/ 9 * Len(documents) < 10
    \/ FeatureNames(documents) = << >>

\* Lines 190-191: KMeans.fit raises when it is asked for fewer than one cluster
\* or for more clusters than there are samples.
KMeansRaises(n, k) == k < 1 \/ n < k

\* The fixed-point unit of the weights below: a weight w is held as the
\* integer nearest to w * Scale.
Scale == 10000

\* TfidfVectorizer's smoothed inverse document frequency,
\* ln((1 + n) / (1 + df)) + 1, in units of 1 / Scale, for up to five documents.
IdfScaled(n, df) ==
    CASE df = n -> 10000
      [] <<n, df>> = <<2, 1>> -> 14055
      [] <<n, df>> = <<3, 1>> -> 16931
      [] <<n, df>> = <<3, 2>> -> 12877
      [] <<n, df>> = <<4, 1>> -> 19163
      [] <<n, df>> = <<4, 2>> -> 15108
      [] <<n, df>> = <<4, 3>> -> 12231
      [] <<n, df>> = <<5, 1>> -> 20986
      [] <<n, df>> = <<5, 2>> -> 16931
      [] <<n, df>> = <<5, 3>> -> 14055
      [] <<n, df>> = <<5, 4>> -> 11823

RECURSIVE IsqrtBetween(_, _, _)
\* The largest r in lo..hi with r * r <= x.
IsqrtBetween(x, lo, hi) ==
    IF lo = hi THEN lo
    ELSE LET mid == (lo + hi + 1) \div 2
         IN  IF mid * mid <= x THEN IsqrtBetween(x, mid, hi)
             ELSE IsqrtBetween(x, lo, mid - 1)

Isqrt(x) == IsqrtBetween(x, 0, 46340)

\* Line 187: the row fit_transform gives document i: the idf of each feature
\* the document holds (every term occurs once in a subject of the model),
\* divided by the Euclidean norm of the row; a document without features has
\* the zero row.
TfidfRow(documents, features, i) ==
    LET n == Len(documents)
        idf == [j \in 1..Len(features) |->
                  IF features[j] \in Terms(documents[i])
                  THEN IdfScaled(n, DocumentFrequency(documents, features[j]))
                  ELSE 0]
        norm == Isqrt(SumSeq([j \in 1..Len(features) |-> idf[j] * idf[j]]))
    IN  [j \in 1..Len(features) |->
            IF norm = 0 THEN 0 ELSE (idf[j] * Scale) \div norm]

\* Line 198: the centre of cluster c is the mean of the rows of its documents
\* (the zero vector for a cluster without documents, whose name no record
\* takes).
ClusterCenter(documents, features, clusters, c) ==
    LET members == {i \in 1..Len(documents) : clusters[i] = c}
        row == [i \in 1..Len(documents) |-> TfidfRow(documents, features, i)]
    IN  [j \in 1..Len(features) |->
            IF members = {} THEN 0
            ELSE SumSeq([i \in 1..Len(documents) |->
                            IF i \in members THEN row[i][j] ELSE 0])
                 \div Cardinality(members)]

\* Lines 191-194: the labels fit may give the documents: each document is put
\* in the cluster of the centre nearest to its row, so documents with the
\* same row share a cluster; which clusters are used, and by which documents,
\* is the library's choice.
Clusterings(documents, features, k) ==
    LET n == Len(documents)
        row == [i \in 1..n |-> TfidfRow(documents, features, i)]
    IN  {clusters \in [1..n -> 0..(k - 1)] :
            \A i, j \in 1..n : row[i] = row[j] => clusters[i] = clusters[j]}

\* Line 204: argsort()[-3:][::-1], the indices of the three largest weights,
\* largest first. The order argsort gives equal weights depends on the
\* library's rounding and on the sort the build uses: every order is possible.
TopIndices(center) ==
    LET f == Len(center)
        m == IF f < 3 THEN f ELSE 3
    IN  {top \in [1..m -> 1..f] :
            /\ \A p, q \in 1..m : p < q =>
                  (top[p] # top[q] /\ center[top[p]] >= center[top[q]])
            /\ \A x \in 1..f :
                  (\A p \in 1..m : top[p] # x) => center[x] <= center[top[m]]}

RECURSIVE Join(_)
\* ', '.join(words)
Join(words) ==
    IF words = << >> THEN ""
    ELSE IF Len(words) = 1 THEN words[1]
    ELSE words[1] \o ", " \o Join(Tail(words))

\* Lines 205-210: the name of cluster c (0-based) from its top indices.
CategoryName(features, top_indices, c) ==
    LET kept == SelectSeq(top_indices, LAMBDA idx : idx <= Len(features))
        top_words == [p \in 1..Len(kept) |-> features[kept[p]]]
    IN  IF top_words = << >>
        THEN "Category " \o ToString(c + 1)
        ELSE "Category " \o ToString(c + 1) \o ": " \o Join(top_words)

RECURSIVE TopsOf(_, _, _, _)
\* Lines 202-204: one choice of top indices for each of the clusters cs.
TopsOf(documents, features, clusters, cs) ==
    IF cs = {} THEN {<< >>}
    ELSE LET c == CHOOSE x \in cs : TRUE
         IN  {(c :> top) @@ rest :
                top \in TopIndices(ClusterCenter(documents, features, clusters, c)),
                rest \in TopsOf(documents, features, clusters, cs \ {c})}

\* Lines 213-214: every record takes the name of its cluster.
AssignClusters(records, features, clusters, tops) ==
    [i \in 1..Len(records) |->
        Put(records[i], "category",
            CategoryName(features, tops[clusters[i]], clusters[i]))]

\* Lines 218-223: the fallback of the except clause.
AssignFallbackMissingOnly(records) ==
    [i \in 1..Len(records) |->
        IF "category" \in DOMAIN records[i] THEN records[i]
        ELSE Put(records[i], "category", "Uncategorized")]

AssignFallbackNothing(records) == records

AssignFallback(records) ==
    [i \in 1..Len(records) |-> Put(records[i], "category", "Uncategorized")]

\* suggest_categories(emails, num_clusters), lines 163-223. The cluster of
\* each document is the library's choice; the names of the clusters no
\* document is in are built and never used.
Categorize ==
    /\ pc = "categorize"
    /\ LET documents == Documents(emails)
           n == Len(documents)
           k == EffectiveClusters(n, num_clusters)
           features == FeatureNames(documents)
       IN  IF emails = << >>
           THEN /\ cat_ret' = << >>
                /\ UNCHANGED <<emails, caught>>
           ELSE IF VectorizerRaises(documents) \/ KMeansRaises(n, k)
           THEN /\ emails' = AssignFallback(emails)
                /\ cat_ret' = emails'
                /\ caught' = caught \cup {"categorize"}
           ELSE \E clusters \in Clusterings(documents, features, k) :
                \E tops \in TopsOf(documents, features, clusters,
                                   {clusters[i] : i \in 1..n}) :
                   /\ emails' = AssignClusters(emails, features, clusters, tops)
                   /\ cat_ret' = emails'
                   /\ UNCHANGED caught
    /\ status' = [status EXCEPT !["categorize"] = "returned"]
    /\ pc' = ReturnTo("categorize")
    /\ UNCHANGED <<caller, fetchVars, num_clusters, categories, console, saveVars>>

\* Records handed to suggest_categories directly: with and without a subject,
\* two with the same subject, and one that an earlier run already labelled.
RecordPool ==
    { [id |-> 1, subject |-> "Invoice reminder"],
      [id |-> 2, subject |-> "Team meeting", category |-> "Category 2: team, meeting"],
      [id |-> 3, subject |-> "Invoice payment"],
      [id |-> 4, subject |-> "It is the"],
      [id |-> 5],
      [id |-> 6, subject |-> "Invoice reminder"] }

\* Line 129: every record carries the id of its own message. The clusters of
\* the documents are any the library may give, whatever the order of the
\* records, so the records are taken in the order of their ids.
DistinctIds(records) ==
    \A i, j \in 1..Len(records) : i < j => records[i].id < records[j].id

InitCategorize ==
    /\ pc = "categorize"
    /\ caller = "none"
    /\ status = [fn \in {"fetch", "categorize", "save", "main"} |->
                   IF fn = "categorize" THEN "running" ELSE "idle"]
    /\ FetchIdle
    /\ emails \in {s \in SeqsUpTo(RecordPool, MaxRecords) : DistinctIds(s)}
    /\ num_clusters \in (0 - 1)..MaxClusters
    /\ cat_ret = << >>
    /\ SaveIdle /\ MainIdle

NextCategorize == Categorize

SpecCategorize == InitCategorize /\ [][NextCategorize]_vars

\* ---------------------------------------------- save_categories_to_file

\* Line 230 and 234: the header row.
HeaderRow == <<"Category", "From", "Subject", "Date", "Has Body">>

\* The csv writer writes a boolean as str() gives it.
BoolText(b) == IF b THEN "True" ELSE "False"

\* Lines 239-245: the row of one record.
RowOf(category, email) ==
    << category,
       Get(email, "from", "Unknown"),
       Get(email, "subject", "No subject"),
       Get(email, "date", "Unknown"),
       BoolText(Get(email, "has_body", FALSE)) >>

RECURSIVE FirstRowFrom(_, _)
\* Lines 237-238: the first record at or after group g, as <<group, index>>;
\* the group is past the last one when no record is left.
FirstRowFrom(grouping, g) ==
    IF g > Len(grouping) THEN <<g, 1>>
    ELSE IF grouping[g][2] = << >> THEN FirstRowFrom(grouping, g + 1)
    ELSE <<g, 1>>

NextRow(grouping, at) ==
    IF at[2] < Len(grouping[at[1]][2]) THEN <<at[1], at[2] + 1>>
    ELSE FirstRowFrom(grouping, at[1] + 1)

\* Lines 249-251: what the except clause returns.
OnSaveErrorTrue == TRUE

OnSaveError == FALSE

SaveReturn(value) ==
    /\ save_ret' = value
    /\ status' = [status EXCEPT !["save"] = "returned"]
    /\ pc' = ReturnTo("save")

\* Lines 249-251: the except clause.
SaveExcept ==
    /\ SaveReturn(OnSaveError)
    /\ caught' = caught \cup {"save"}

\* Line 228: open(filename, 'w') truncates the file.
OpenedAppending(old) == old

Opened(old) == << >>

\* Lines 228-245: what the destination holds once writing has failed. Rows go
\* to the buffer of the open file and reach the destination when the buffer
\* is flushed; a flush that fails leaves the rows it had already put down, the
\* first `whole` of the pending ones at most, and possibly a fragment of the
\* row after them.
DiskAfterError(disk, pending, whole) ==
    {d \in {[rows |-> disk \o SubSeq(pending, 1, k), torn |-> t] :
                k \in 0..whole, t \in BOOLEAN} :
        d.torn => Len(d.rows) < Len(disk) + Len(pending)}

\* Line 228: the file is truncated as soon as it is opened; when opening fails
\* the destination is left as it was.
SaveOpen ==
    /\ pc = "open"
    /\ \E fails \in BOOLEAN :
         IF fails
         THEN /\ SaveExcept
              /\ UNCHANGED <<file, buffer, torn, row_at>>
         ELSE /\ file' = Opened(file)
              /\ buffer' = << >>
              /\ torn' = FALSE
              /\ row_at' = <<1, 1>>
              /\ pc' = "header"
              /\ UNCHANGED <<status, save_ret, caught>>
    /\ UNCHANGED <<caller, fetchVars, emails, catVars, categories, console>>

\* Line 234: the header row goes to the buffer. When the writer raises, the
\* with block closes the file on the way to the except clause.
SaveHeader ==
    /\ pc = "header"
    /\ \E fails \in BOOLEAN :
         IF fails
         THEN /\ SaveExcept
              /\ \E d \in DiskAfterError(file, Append(buffer, HeaderRow),
                                         Len(buffer)) :
                    file' = d.rows /\ torn' = d.torn
              /\ buffer' = << >>
              /\ UNCHANGED row_at
         ELSE /\ buffer' = Append(buffer, HeaderRow)
              /\ row_at' = FirstRowFrom(categories, 1)
              /\ pc' = IF row_at'[1] > Len(categories) THEN "close" ELSE "row"
              /\ UNCHANGED <<file, torn, status, save_ret, caught>>
    /\ UNCHANGED <<caller, fetchVars, emails, catVars, categories, console>>

\* Lines 237-245: one row goes to the buffer, which the file may flush to the
\* destination when it is full.
SaveRow ==
    /\ pc = "row"
    /\ LET group == categories[row_at[1]]
           pending == Append(buffer, RowOf(group[1], group[2][row_at[2]]))
       IN  \E outcome \in {"buffered", "flushed", "error"} :
             IF outcome = "error"
             THEN /\ SaveExcept
                  /\ \E d \in DiskAfterError(file, pending, Len(buffer)) :
                        file' = d.rows /\ torn' = d.torn
                  /\ buffer' = << >>
                  /\ UNCHANGED row_at
             ELSE /\ IF outcome = "flushed"
                     THEN file' = file \o pending /\ buffer' = << >>
                     ELSE file' = file /\ buffer' = pending
                  /\ row_at' = NextRow(categories, row_at)
                  /\ pc' = IF row_at'[1] > Len(categories) THEN "close" ELSE "row"
                  /\ UNCHANGED <<torn, status, save_ret, caught>>
    /\ UNCHANGED <<caller, fetchVars, emails, catVars, categories, console>>

\* The end of the with block (the buffer is flushed and the file closed) and
\* lines 247-248.
SaveClose ==
    /\ pc = "close"
    /\ \E fails \in BOOLEAN :
         IF fails
         THEN /\ SaveExcept
              /\ \E d \in DiskAfterError(file, buffer, Len(buffer)) :
                    file' = d.rows /\ torn' = d.torn
         ELSE /\ SaveReturn(TRUE)
              /\ file' = file \o buffer
              /\ torn' = FALSE
              /\ UNCHANGED caught
    /\ buffer' = << >>
    /\ UNCHANGED <<caller, fetchVars, emails, catVars, categories, console,
                   row_at>>

\* Records and groupings handed to save_categories_to_file directly.
ExportPool ==
    { [from |-> "ann@example.com", subject |-> "Invoice reminder", date |-> "Mon",
       has_body |-> TRUE, category |-> "Category 1: invoice"],
      [subject |-> "Team meeting", has_body |-> FALSE],
      [id |-> 5] }

Labels == {"Category 1: invoice", "Category 2", "Uncategorized"}

Groupings ==
    {g \in SeqsUpTo(Labels \X SeqsUpTo(ExportPool, 2), MaxGroups) :
        \A a, b \in 1..Len(g) : a # b => g[a][1] # g[b][1]}

\* What the destination may hold before the call.
OldFiles == { << >>, <<HeaderRow, <<"Old", "zed@example.com", "Stale", "Sun", "True">> >> }

InitExport ==
    /\ pc = "open"
    /\ caller = "none"
    /\ status = [fn \in {"fetch", "categorize", "save", "main"} |->
                   IF fn = "save" THEN "running" ELSE "idle"]
    /\ FetchIdle
    /\ emails = << >>
    /\ CatIdle
    /\ categories \in Groupings
    /\ console = << >>
    /\ file \in OldFiles
    /\ buffer = << >>
    /\ torn = FALSE
    /\ row_at = <<1, 1>>
    /\ save_ret = FALSE
    /\ caught = {}

NextExport == SaveOpen \/ SaveHeader \/ SaveRow \/ SaveClose

SpecExport == InitExport /\ [][NextExport]_vars

\* ------------------------------------------------------------------ main

\* Defaults of the parameters main leaves out (lines 67 and 163).
DefaultBatchSize == 25
DefaultClusters == 5

RECURSIVE GroupBy(_, _)
\* Lines 271-276: the records grouped by category, the categories in the order
\* of their first record.
GroupBy(records, grouping) ==
    IF records = << >> THEN grouping
    ELSE LET email == Head(records)
             category == email.category
             known == {g \in 1..Len(grouping) : grouping[g][1] = category}
             added == IF known = {}
                      THEN Append(grouping, <<category, <<email>> >>)
                      ELSE [g \in 1..Len(grouping) |->
                              IF g \in known
                              THEN <<category, Append(grouping[g][2], email)>>
                              ELSE grouping[g]]
         IN  GroupBy(Tail(records), added)

\* Lines 281-289: what the summary shows of one category.
SummaryOf(group) ==
    LET listed == group[2]
        shown == IF Len(listed) < 3 THEN Len(listed) ELSE 3
    IN  [category |-> group[1],
         count |-> Len(listed),
         samples |-> [i \in 1..shown |->
                        << Get(listed[i], "from", "Unknown"),
                           Get(listed[i], "subject", "No subject"),
                           Get(listed[i], "date", "Unknown") >>],
         more |-> IF Len(listed) > 3 THEN Len(listed) - 3 ELSE 0]

Summary(grouping) == [g \in 1..Len(grouping) |-> SummaryOf(grouping[g])]

MainReturn ==
    /\ status' = [status EXCEPT !["main"] = "returned"]
    /\ pc' = "done"

\* Lines 256 and 259: authenticate (an error there is not caught) and call
\* get_all_unread_emails(service).
MainAuth ==
    /\ pc = "m_auth"
    /\ \E fails \in BOOLEAN :
         IF fails
         THEN /\ status' = [status EXCEPT !["main"] = "raised"]
              /\ pc' = "done"
         ELSE /\ status' = [status EXCEPT !["fetch"] = "running"]
              /\ pc' = "count"
    /\ UNCHANGED <<caller, fetchVars, emails, catVars, categories, console, saveVars, caught>>

\* Lines 259-268: take the result; stop when it is empty, else call
\* suggest_categories(emails).
MainCheck ==
    /\ pc = "m_check"
    /\ emails' = fetch_ret
    /\ IF fetch_ret = << >>
       THEN /\ MainReturn
            /\ UNCHANGED num_clusters
       ELSE /\ num_clusters' = DefaultClusters
            /\ status' = [status EXCEPT !["categorize"] = "running"]
            /\ pc' = "categorize"
    /\ UNCHANGED <<caller, fetchVars, cat_ret, categories, console, saveVars, caught>>

\* Lines 271-276.
MainGroup ==
    /\ pc = "m_group"
    /\ categories' = GroupBy(cat_ret, << >>)
    /\ pc' = "m_display"
    /\ UNCHANGED <<caller, status, fetchVars, emails, catVars, console, saveVars, caught>>

\* Lines 279-292: print the summary, then call save_categories_to_file.
MainDisplay == Summary(categories)

MainShow ==
    /\ pc = "m_display"
    /\ console' = MainDisplay
    /\ status' = [status EXCEPT !["save"] = "running"]
    /\ pc' = "open"
    /\ UNCHANGED <<caller, fetchVars, emails, catVars, categories, saveVars, caught>>

\* Line 293 and the return.
MainFinal ==
    /\ pc = "m_final"
    /\ MainReturn
    /\ UNCHANGED <<caller, fetchVars, emails, catVars, categories, console, saveVars, caught>>

\* The providers main runs against.
MainPageSizes == {0, 1, 2}

MainServices ==
    [pages : SeqsUpTo(MainPageSizes, 2) \ {<< >>},
     cyclic : {FALSE},
     estimate : {0, 1, 4}]

InitMain ==
    /\ pc = "m_auth"
    /\ caller = "main"
    /\ status = [fn \in {"fetch", "categorize", "save", "main"} |->
                   IF fn = "main" THEN "running" ELSE "idle"]
    /\ service \in MainServices
    /\ batch_size = DefaultBatchSize
    /\ FetchLocals
    /\ emails = << >>
    /\ CatIdle
    /\ categories = << >>
    /\ console = << >>
    /\ file \in OldFiles
    /\ buffer = << >>
    /\ torn = FALSE
    /\ row_at = <<1, 1>>
    /\ save_ret = FALSE
    /\ caught = {}

NextMain ==
    \/ MainAuth \/ FetchCount \/ FetchList \/ FetchHydrate \/ MainCheck
    \/ Categorize \/ MainGroup \/ MainShow
    \/ SaveOpen \/ SaveHeader \/ SaveRow \/ SaveClose \/ MainFinal

SpecMain == InitMain /\ [][NextMain]_vars

\* ================================================================ claims
\* get_all_unread_emails, checked under SpecFetch.

\* The estimates below 200 whose product with 1.1 Python rounds above 11t/10
\* (50 * 1.1 is 55.00000000000001), as the interpreter computes them.
InexactProducts == {50, 90, 100, 110, 170, 180, 190}

\* n >= t * 1.1 in Python, for t < 200.
ReachesLimit(n, t) ==
    \/ 10 * n > 11 * t
    \/ 10 * n = 11 * t /\ t \notin InexactProducts

\* Every listing call after the first passes the token of the page before it.
RequestsFollowTokens ==
    (pc = "list" /\ page_count >= 1) => Last(requests') = response.nextPageToken

\* C1 as stated, for the non-empty pages its second sentence is about: after a
\* listing that did not fail and returned a non-empty page, the loop stops only
\* when the response carries no continuation token or the accumulated count is
\* above 1.1 times the estimate; with a token and a count of at most 1.1 times
\* the estimate, the next page is requested with that token.
C1_Original ==
    [][ /\ RequestsFollowTokens
        /\ (pc = "list" /\ "fetch" \notin caught' /\ response'.messages # << >>) =>
             LET n == Len(all_messages')
                 t == total_count
                 token == response'.nextPageToken
             IN  /\ pc' # "list" => (token = NoToken \/ 10 * n > 11 * t)
                 /\ (token # NoToken /\ 10 * n <= 11 * t)
                      => (pc' = "list" /\ next_page_token' = token) ]_vars

\* C1 amended: after a listing that did not fail, the loop stops only when the
\* page is empty, or the response carries no continuation token, or the
\* accumulated count is at least the floating-point product estimate * 1.1; a
\* non-empty page with a token and a count below that product is followed by a
\* request with that token.
C1_PagingContinues ==
    [][ /\ RequestsFollowTokens
        /\ (pc = "list" /\ "fetch" \notin caught') =>
             LET n == Len(all_messages')
                 t == total_count
                 page == response'.messages
                 token == response'.nextPageToken
             IN  /\ pc' # "list" =>
                      (page = << >> \/ token = NoToken \/ ReachesLimit(n, t))
                 /\ (page # << >> /\ token # NoToken /\ ~ReachesLimit(n, t))
                      => (pc' = "list" /\ next_page_token' = token) ]_vars

\* The loop goes on after a page of 55 identifiers against an estimate of 50:
\* 55 is 1.1 times 50, and below the product Python computes.
C1_Witness ==
    /\ pc = "list"
    /\ page_count = 1
    /\ total_count = 50
    /\ Len(all_messages) = 55
    /\ next_page_token = 2
    /\ caught = {}

\* C10: the number of listing calls is bounded by the estimate, whatever the
\* provider returns: at most floor(1.1 * estimate) + 1 pages are requested.
C10_PagesBounded == page_count <= (11 * total_count) \div 10 + 1

\* A provider that carries a token on every page was stopped by the safety
\* check, after more requests than it has pages.
C10_Witness ==
    /\ pc = "hydrate"
    /\ service.cyclic
    /\ response.nextPageToken # NoToken
    /\ page_count > Len(service.pages)
    /\ Len(all_messages) > service.estimate

\* The identifiers of a sequence of records.
RecordIds(records) == [i \in 1..Len(records) |-> records[i].id]

\* The identifiers of the concatenation of pages, in order.
AllIds(pages) == [i \in 1..SumSeq(pages) |-> i]

FetchSucceeded ==
    status["fetch"] = "returned" /\ caught = {} /\ ~service.cyclic

\* C2 as stated, for providers none of whose pages is empty: with a finite
\* provider and no failure, whatever the estimate, the result holds one record
\* per identifier of all the provider's pages, in order.
C2_Original ==
    (FetchSucceeded /\ \A j \in 1..Len(service.pages) : service.pages[j] > 0)
        => RecordIds(fetch_ret) = AllIds(service.pages)

\* No page before the last is empty or brings the count to the limit.
NoEarlyStop ==
    \A j \in 1..(Len(service.pages) - 1) :
        /\ service.pages[j] > 0
        /\ ~ReachesLimit(SumSeq(SubSeq(service.pages, 1, j)), service.estimate)

\* C2 amended: with a finite provider, no failure and a non-zero batch size, the
\* result holds one record per identifier of the pages requested, in order;
\* these are all the provider's pages when no page before the last is empty or
\* brings the accumulated count to estimate * 1.1.
C2_ConcatenationOfRequestedPages ==
    FetchSucceeded =>
        /\ page_count <= Len(service.pages)
        /\ RecordIds(fetch_ret) = AllIds(SubSeq(service.pages, 1, page_count))
        /\ NoEarlyStop => page_count = Len(service.pages)

\* Three non-empty pages were fetched and hydrated in full.
C2_Witness ==
    /\ FetchSucceeded
    /\ Len(service.pages) = 3
    /\ \A j \in 1..3 : service.pages[j] > 0
    /\ Len(fetch_ret) = SumSeq(service.pages)

\* C3: no exception leaves get_all_unread_emails, and once its except clause
\* ran the function has returned the empty sequence, whatever was hydrated.
C3_FailureReturnsEmpty ==
    /\ status["fetch"] # "raised"
    /\ "fetch" \in caught => (status["fetch"] = "returned" /\ fetch_ret = << >>)

\* A hydration failed after two records were built.
C3_Witness ==
    /\ "fetch" \in caught
    /\ batch_size # 0
    /\ Len(emails) >= 2
    /\ fetch_ret = << >>

\* The hydration counts b, 2b, ... up to last.
Multiples(b, last) == [j \in 1..(last \div b) |-> j * b]

\* C9 as stated: exactly one pause follows every hydration that completes a
\* batch, the last hydration included, and none follows another hydration.
C9_Original ==
    batch_size > 0 => pauses = Multiples(batch_size, Len(emails))

\* C9 amended: exactly one pause follows every hydration that completes a batch
\* and is not the last hydration (j * b < M), and none follows another one.
C9_PauseBetweenBatches ==
    /\ batch_size = 0 => pauses = << >>
    /\ batch_size > 0 =>
         pauses = Multiples(batch_size,
                            IF Len(emails) < Len(all_messages)
                            THEN Len(emails) ELSE Len(all_messages) - 1)

\* Twelve hydrations in batches of two: five pauses, none after the last batch.
C9_Witness ==
    /\ status["fetch"] = "returned"
    /\ batch_size = 2
    /\ Len(fetch_ret) = 12
    /\ pauses = <<2, 4, 6, 8, 10>>

\* suggest_categories, checked under SpecCategorize.

Categorized == status["categorize"] = "returned" /\ emails # << >>

\* C4: after suggest_categories on a non-empty sequence, by clustering or by
\* the fallback, every record carries a category and it is a non-empty string.
C4_EveryRecordLabelled ==
    Categorized =>
        /\ cat_ret = emails
        /\ \A i \in 1..Len(emails) :
              /\ "category" \in DOMAIN emails[i]
              /\ Len(emails[i].category) > 0

\* Clustering succeeded on three records, one of them without a subject, and
\* gave two of them different labels.
C4_Witness ==
    /\ Categorized
    /\ caught = {}
    /\ Len(emails) = 3
    /\ emails[3].id = 5
    /\ emails[1].category # emails[3].category

\* C5: no exception leaves suggest_categories; when vectorization or
\* clustering failed every record is labelled "Uncategorized" and none keeps a
\* cluster label; a single record, and a cluster count below one, fail so.
C5_FallbackIsTotal ==
    /\ status["categorize"] # "raised"
    /\ (Categorized /\ ("categorize" \in caught \/ Len(emails) = 1 \/ num_clusters < 1))
         => \A i \in 1..Len(emails) :
               /\ "category" \in DOMAIN emails[i]
               /\ emails[i].category = "Uncategorized"

\* The fallback ran over a record that carried a cluster label before.
C5_Witness ==
    /\ Categorized
    /\ "categorize" \in caught
    /\ Len(emails) = 2
    /\ emails[1].id = 2
    /\ emails[1].category = "Uncategorized"

\* The effective cluster count as the claim gives it.
ClaimedClusters(n, k) ==
    IF n >= k THEN k ELSE (IF n \div 2 > 2 THEN n \div 2 ELSE 2)

LabelsOf(records) == {records[i].category : i \in 1..Len(records)}

\* C6 as stated: for every requested count k, the records carry at most the
\* effective cluster count of distinct labels, and that count is at most k.
C6_Original ==
    Categorized =>
        /\ Cardinality(LabelsOf(emails))
             <= ClaimedClusters(Len(emails), num_clusters)
        /\ ClaimedClusters(Len(emails), num_clusters) <= num_clusters

\* C6 amended: the same, for a requested count k >= 1.
C6_LabelsBounded ==
    (Categorized /\ num_clusters >= 1) =>
        /\ Cardinality(LabelsOf(emails))
             <= ClaimedClusters(Len(emails), num_clusters)
        /\ ClaimedClusters(Len(emails), num_clusters) <= num_clusters

\* Three records and four requested clusters: clustering ran with two and
\* used both.
C6_Witness ==
    /\ Categorized
    /\ caught = {}
    /\ Len(emails) = 3
    /\ num_clusters = 4
    /\ Cardinality(LabelsOf(emails)) = 2

\* save_categories_to_file, checked under SpecExport.

RECURSIVE Flatten(_)
\* The <<category, record>> pairs of a grouping, in grouping order.
Flatten(grouping) ==
    IF grouping = << >> THEN << >>
    ELSE [i \in 1..Len(grouping[1][2]) |-> <<grouping[1][1], grouping[1][2][i]>>]
         \o Flatten(Tail(grouping))

\* C7: a save that met no I/O error returns True and leaves the file with the
\* header row followed by one row per record, in grouping order, and nothing
\* of what the file held before: every row has reached the file, whole.
C7_HeaderThenOneRowPerRecord ==
    (status["save"] = "returned" /\ "save" \notin caught) =>
        LET flat == Flatten(categories)
        IN  /\ save_ret = TRUE
            /\ buffer = << >>
            /\ torn = FALSE
            /\ Len(file) = 1 + SumSeq([g \in 1..Len(categories) |->
                                          Len(categories[g][2])])
            /\ file[1] = HeaderRow
            /\ \A k \in 1..Len(flat) : file[k + 1] = RowOf(flat[k][1], flat[k][2])

\* A grouping whose first category is empty and whose second holds two
\* records was written: three rows.
C7_Witness ==
    /\ status["save"] = "returned"
    /\ save_ret = TRUE
    /\ Len(categories) = 2
    /\ categories[1][2] = << >>
    /\ Len(file) = 3

\* main, checked under SpecMain.

\* C8: an I/O error of save_categories_to_file is never propagated: the
\* function returns False; main has printed the summary of every category
\* before it calls the export, and returns normally after a failed export.
C8_ExportErrorContained ==
    /\ status["save"] # "raised"
    /\ "save" \in caught =>
          /\ status["save"] = "returned"
          /\ save_ret = FALSE
          /\ status["main"] # "raised"
          /\ pc \in {"m_final", "done"}
          /\ pc = "done" => status["main"] = "returned"
    /\ status["save"] # "idle" =>
          /\ Len(console) = Len(categories)
          /\ \A g \in 1..Len(categories) :
                /\ console[g].category = categories[g][1]
                /\ console[g].count = Len(categories[g][2])
                /\ Len(console[g].samples) + console[g].more = console[g].count
                /\ Len(console[g].samples) <= 3

\* The export failed after the header was written, the file is left with the
\* header and a fragment of the first row, and main returned.
C8_Witness ==
    /\ "save" \in caught
    /\ save_ret = FALSE
    /\ file = <<HeaderRow>>
    /\ torn
    /\ console # << >>
    /\ status["main"] = "returned"

====
